---- MODULE Spec2Model ----
(***************************************************************************)
(* The lookup-join node of eKuiper: internal/topo/node/lookup_node.go.     *)
(* One worker goroutine attaches to the lookup source, optionally creates  *)
(* a TTL cache, and then loops over a select on the input channel and the  *)
(* context's done channel.  Every Row (alone or inside a Window) goes      *)
(* through lookup(), which evaluates the join keys, consults the cache and *)
(* the external adapter, and merges the result into the batch.             *)
(***************************************************************************)
EXTENDS Integers, Sequences, FiniteSets, TLC

\* ------------------------------------------------------------------ bounds
MaxItems == 2      \* items the upstream sends on n.input
MaxCalls == 3      \* rows looked up in all, over all items
MaxTime  == 2      \* ticks of the clock (timex.GetNow)
MaxTTL   == 2      \* the configured cacheTtl, in ticks

\* ------------------------------------------------------------------ values
\* A scalar produced by ve.Eval: nil, a string or an integer.  A string is the
\* sequence of its characters, an integer the sequence of its decimal digits.
NULL    == [t |-> "nil", v |-> <<>>]
Str(s)  == [t |-> "string", v |-> s]
Num(ds) == [t |-> "int", v |-> ds]

\* The join-key vectors the rows of the model evaluate to (len(n.vals) = 2).
KNull == <<Str(<<"a">>), NULL>>
KA    == <<Str(<<"a">>), Num(<<"1">>)>>
KeyVecs == {KNull, KA}

\* What a Window's Range may yield that is not an xsql.Row.
NotARow == [kind |-> "notrow", cvs |-> <<>>]
RowOf(k) == [kind |-> "row", cvs |-> k]
Elems == {RowOf(k) : k \in KeyVecs} \cup {NotARow}

\* The names of the node and of the join types (ast.LEFT_JOIN, ast.INNER_JOIN).
NodeName == "lookup"
LEFT_JOIN == "LEFT_JOIN"
INNER_JOIN == "INNER_JOIN"

\* ------------------------------------------------------------------ adapter
\* What ns.Lookup may return: an error, a nil list without error, or a list of
\* records (possibly empty).  Records are numbered; <<2, 1>> is a two-record
\* answer whose order is not the numeric one.
NilList == [kind |-> "nil", recs |-> <<>>]
ErrRes  == [kind |-> "err", recs |-> <<>>]
List(rs) == [kind |-> "list", recs |-> rs]
AdapterResults == {ErrRes, NilList, List(<<>>), List(<<2, 1>>)}

\* ------------------------------------------------------------------ config
\* LookupConf: the zero value (no cache) or a cache with a TTL and the
\* cacheMissingKey flag.
LookupConf ==
  {[Cache |-> FALSE, CacheTTL |-> 0, CacheMissingKey |-> FALSE]}
  \cup [Cache : {TRUE}, CacheTTL : {MaxTTL}, CacheMissingKey : BOOLEAN]

VARIABLES
  conf,      \* n.conf
  joinType,  \* n.joinType
  pc,        \* position of the worker goroutine
  input,     \* n.input, the channel's buffer
  sent,      \* number of items the upstream has sent
  done,      \* ctx.Done() is closed
  cur,       \* the item being processed
  idx,       \* index of the next row of cur
  sets,      \* the JoinTuples being accumulated for cur
  c,         \* the cache (NoCache when c == nil)
  now,       \* the clock
  out,       \* what Broadcast has sent downstream
  errCh,     \* what DrainError has put on the error channel
  res,       \* registry and cache resources: attach/detach/close counts
  calls,     \* history: one record per call of lookup()
  recv,      \* history: the items received from n.input
  fails      \* history: the items that ended with an error

vars == <<conf, joinType, pc, input, sent, done, cur, idx, sets, c, now, out,
          errCh, res, calls, recv, fails>>

hist == <<calls, recv, fails>>

\* ------------------------------------------------------------------ cache
\* cache.Cache: a set of entries, one per key, each with the data stored and
\* the time it expires.  NoCache is the nil *cache.Cache of a node without
\* caching.
NoCache == [on |-> FALSE, ttl |-> 0, missing |-> FALSE, items |-> {}]

\* cache.NewCache(n.conf.CacheTTL, n.conf.CacheMissingKey)
NewCache(ttl, cacheMissingKey) ==
  [on |-> TRUE, ttl |-> ttl, missing |-> cacheMissingKey, items |-> {}]

\* c.Get(k): found is false if the key was never set or has expired; an entry
\* set at T is expired from T + TTL on, whatever was read in between.
Get(cc, k, t) ==
  LET live == {e \in cc.items : e.k = k /\ t < e.expiration}
  IN IF live = {} THEN [r |-> NilList, ok |-> FALSE]
     ELSE [r |-> (CHOOSE e \in live : TRUE).data, ok |-> TRUE]

\* c.Close(): all entries are released and the cache is no longer live.
Close(cc) == [cc EXCEPT !.on = FALSE, !.items = {}]

\* c.Set(k, r): inserts or overwrites, expiry at now + TTL; an empty result is
\* stored only when the cache was created with cacheMissingKey.
Set(cc, k, r, t) ==
  IF Len(r.recs) > 0 \/ cc.missing
  THEN [cc EXCEPT !.items = {e \in cc.items : e.k # k}
                     \cup {[k |-> k, data |-> r, expiration |-> t + cc.ttl]}]
  ELSE cc

\* ------------------------------------------------------------------ lookup
\* ve.Eval(val) for each of n.vals: the row's join-key vector.
Eval(d) == d.cvs

\* A variant of hasNil that looks at the first key only.
hasNilFirst(cvs) == Len(cvs) > 0 /\ cvs[1] = NULL

\* lines 166-172: hasNil is set when any evaluated key is nil.
hasNil(cvs) == \E i \in 1..Len(cvs) : cvs[i] = NULL

\* fmt's %v of one value: a string as it is, an integer in decimal, nil as <nil>.
Format(v) == IF v.t = "nil" THEN <<"<", "n", "i", "l", ">">> ELSE v.v

RECURSIVE JoinSpace(_)
JoinSpace(vs) ==
  IF Len(vs) = 0 THEN <<>>
  ELSE IF Len(vs) = 1 THEN Format(vs[1])
  ELSE Format(vs[1]) \o <<" ">> \o JoinSpace(Tail(vs))

\* line 180: k := fmt.Sprintf("%v", cvs), a slice prints as [e1 e2 ...].
Sprintf(cvs) == <<"[">> \o JoinSpace(cvs) \o <<"]">>

\* A variant of Store that forgets to write the cache.
StoreNothing(cc, k, r, t) == cc

\* line 187: c.Set(k, r) after a successful ns.Lookup.
Store(cc, k, r, t) == Set(cc, k, r, t)

\* A variant of AfterLookupErr that caches a one-record result for the key.
AfterLookupErrStores(cc, k, t) == Set(cc, k, List(<<1>>), t)

\* lines 184-186: a failed ns.Lookup returns before c.Set, the cache stays as
\* it was.
AfterLookupErr(cc, k, t) == cc

\* lines 178-192: the cache-aware fetch.  ares is what ns.Lookup returns if it
\* is called.  The result tells what was done: get (c.Get called), ok (it
\* hit), call (ns.Lookup called), set (c.Set called), e (an error is returned)
\* and r (the result list, NilList when r == nil).
fetch(cvs, cc, ares, t) ==
  IF hasNil(cvs)
  THEN [r |-> NilList, e |-> FALSE, cache |-> cc,
        get |-> FALSE, ok |-> FALSE, call |-> FALSE, set |-> FALSE]
  ELSE IF cc.on
  THEN LET k == Sprintf(cvs)
           g == Get(cc, k, t)
       IN IF g.ok
          THEN [r |-> g.r, e |-> FALSE, cache |-> cc,
                get |-> TRUE, ok |-> TRUE, call |-> FALSE, set |-> FALSE]
          ELSE IF ares.kind = "err"
          THEN [r |-> NilList, e |-> TRUE, cache |-> AfterLookupErr(cc, k, t),
                get |-> TRUE, ok |-> FALSE, call |-> TRUE, set |-> FALSE]
          ELSE [r |-> ares, e |-> FALSE, cache |-> Store(cc, k, ares, t),
                get |-> TRUE, ok |-> FALSE, call |-> TRUE, set |-> TRUE]
  ELSE [r |-> IF ares.kind = "err" THEN NilList ELSE ares,
        e |-> ares.kind = "err", cache |-> cc,
        get |-> FALSE, ok |-> FALSE, call |-> TRUE, set |-> FALSE]

\* lines 210-215: what a record gives the Tuple built for it: tuple.ToMap()
\* is its fields, mi.AllMeta() its metadata.
ToMap(rec) == <<"fields", rec>>
AllMeta(rec) == <<"meta", rec>>

\* A variant of Merged that leaves the row out of the JoinTuple.
MergedRecordOnly(d, rec, t) ==
  <<[Emitter |-> NodeName, Message |-> ToMap(rec), Metadata |-> AllMeta(rec)]>>

\* lines 207-220: one JoinTuple per matched record: the row, then a Tuple
\* that wraps the record (its Message and Metadata are the record's; the
\* Timestamp, which nothing in the node reads, is left out).
Merged(d, rec, t) ==
  <<d, [Emitter |-> NodeName, Message |-> ToMap(rec), Metadata |-> AllMeta(rec)]>>

\* A variant of RangeOfTuples that puts the new tuples in front.
RangeOfTuplesPrepend(d, recs, tuples, t) ==
  [i \in 1..Len(recs) |-> Merged(d, recs[i], t)] \o tuples

\* lines 206-222: r.RangeOfTuples appends the merged tuples in r's order.
RangeOfTuples(d, recs, tuples, t) ==
  tuples \o [i \in 1..Len(recs) |-> Merged(d, recs[i], t)]

\* A variant of AddUnmatched that forgets the join type.
AddUnmatchedAlways(d, tuples, jt) == Append(tuples, <<d>>)

\* lines 196-205: an empty result adds the row alone for a LEFT join.
AddUnmatched(d, tuples, jt) ==
  IF jt = LEFT_JOIN THEN Append(tuples, <<d>>) ELSE tuples

\* lines 193-224: the merge step.  r.RangeOfTuples on a nil r is a call on a
\* nil interface: it panics.
mergeTuples(d, r, tuples, jt, t) ==
  IF r.kind = "nil" THEN [status |-> "panic", tuples |-> tuples]
  ELSE IF Len(r.recs) = 0
  THEN [status |-> "ok", tuples |-> AddUnmatched(d, tuples, jt)]
  ELSE [status |-> "ok", tuples |-> RangeOfTuples(d, r.recs, tuples, t)]

\* lines 163-225: LookupNode.lookup.  status is "ok" (nil returned), "error"
\* (an error returned) or "panic".
lookup(d, tuples, cc, ares, t) ==
  LET f == fetch(Eval(d), cc, ares, t)
      m == mergeTuples(d, f.r, tuples, joinType, t)
  IN [status |-> IF f.e THEN "error" ELSE m.status,
      tuples |-> IF f.e THEN tuples ELSE m.tuples,
      cache  |-> f.cache,
      get |-> f.get, ok |-> f.ok, call |-> f.call, set |-> f.set, r |-> f.r]

\* ------------------------------------------------------------------ items
\* What the upstream puts on n.input: a Row, a WindowTuples, a control item
\* that commonIngest consumes, or anything else.  What an item or a row holds
\* plays no part before it is looked at, so the channel holds the item numbers,
\* the kind and length of an item are drawn when it is received and the
\* content of a row when the iteration reaches it.  Every row carries the
\* place it came from (item number, position).
Tag(e, id, i) == [kind |-> e.kind, cvs |-> e.cvs, id |-> <<id, i>>]

RowItem(id) == [id |-> id, kind |-> "row", len |-> 1, range |-> 0]
WindowItem(id, n) == [id |-> id, kind |-> "window", len |-> n, range |-> id]
OtherItem(id, kind) == [id |-> id, kind |-> kind, len |-> 0, range |-> 0]

\* The items that may arrive as number id when n more rows may be looked up.
ItemsFor(id, n) ==
  (IF n > 0 THEN {RowItem(id)} ELSE {})
  \cup {WindowItem(id, m) : m \in 0..n}
  \cup {OtherItem(id, "ctrl"), OtherItem(id, "other")}

\* The elements that may be at position i of item it: a Row item is one row,
\* a Window may also hold what is no xsql.Row.
ElemsAt(it, i) ==
  {Tag(e, it.id, i) : e \in IF it.kind = "row" THEN Elems \ {NotARow} ELSE Elems}

NoItem == OtherItem(0, "none")

\* What Broadcast hands downstream: a JoinTuples batch or an error.  item is
\* the number of the input item being processed when it was sent.
Batch(item, content, range) ==
  [item |-> item, kind |-> "batch", Content |-> content, WindowRange |-> range,
   err |-> ""]
Error(item, msg) ==
  [item |-> item, kind |-> "error", Content |-> <<>>, WindowRange |-> 0,
   err |-> msg]
Forwarded(item) ==
  [item |-> item, kind |-> "ctrl", Content |-> <<>>, WindowRange |-> 0,
   err |-> ""]

\* n.Broadcast(v)
Broadcast(o, v) == Append(o, v)

\* ------------------------------------------------------------------ Exec
Init ==
  /\ conf \in LookupConf
  /\ joinType \in {LEFT_JOIN, INNER_JOIN}
  /\ pc = "start"
  /\ input = <<>>
  /\ sent = 0
  /\ done = FALSE
  /\ cur = NoItem
  /\ idx = 0
  /\ sets = <<>>
  /\ c = NoCache
  /\ now = 0
  /\ out = <<>>
  /\ errCh = <<>>
  /\ res = [attach |-> 0, detach |-> 0, close |-> 0]
  /\ calls = <<>>
  /\ recv = <<>>
  /\ fails = <<>>

\* The upstream sends one more item.
Send ==
  /\ sent < MaxItems
  /\ input' = Append(input, sent + 1)
  /\ sent' = sent + 1
  /\ UNCHANGED <<conf, joinType, pc, done, cur, idx, sets, c, now, out, errCh,
                 res, hist>>

\* The context is cancelled.
Cancel ==
  /\ ~done
  /\ done' = TRUE
  /\ UNCHANGED <<conf, joinType, pc, input, sent, cur, idx, sets, c, now, out,
                 errCh, res, hist>>

\* The clock advances.  Only the cache reads it (Get and Set), so it is left
\* alone while there is no live cache.
Tick ==
  /\ now < MaxTime
  /\ c.on
  /\ now' = now + 1
  /\ UNCHANGED <<conf, joinType, pc, input, sent, done, cur, idx, sets, c, out,
                 errCh, res, hist>>

\* A variant of Deferred that forgets the cache.
DeferredDetachOnly(r, cc) == [r EXCEPT !.detach = @ + 1]

\* lines 86, 91: the deferred c.Close() (when a cache was created) and
\* lookup.Detach(n.name), run when the function given to SafeRun is left.
Deferred(r, cc) ==
  [r EXCEPT !.detach = @ + 1, !.close = IF cc.on THEN @ + 1 ELSE @]

\* Variants of CacheFor: one caches missing keys whatever the configuration
\* says, one takes the TTL twice as long as configured, one creates a cache
\* whether configured or not.
CacheForAlwaysMissing(cf) ==
  IF cf.Cache THEN NewCache(cf.CacheTTL, TRUE) ELSE NoCache
CacheForLongTTL(cf) ==
  IF cf.Cache THEN NewCache(cf.CacheTTL * 2, cf.CacheMissingKey) ELSE NoCache

CacheForAlways(cf) == NewCache(MaxTTL, TRUE)

\* lines 88-92: the cache is created only when configured.
CacheFor(cf) ==
  IF cf.Cache THEN NewCache(cf.CacheTTL, cf.CacheMissingKey) ELSE NoCache

\* A variant of OnAttachErr that goes on into the loop without a source.
OnAttachErrContinue == "select"

\* lines 83-85: if err != nil { return err }, before anything is deferred.
OnAttachErr == "exited"

\* A variant of DrainError that loses the error.
DrainErrorDrop(ch, e) == ch

\* lines 156-158: the error SafeRun returns (the one the function returned,
\* or the panic it recovered) is handed to the error channel.
DrainError(ch, e) == Append(ch, e)

\* lines 82-85, 156-158: lookup.Attach fails; the error goes to errCh and the
\* loop is never entered.
AttachFail ==
  /\ pc = "start"
  /\ pc' = OnAttachErr
  /\ errCh' = DrainError(errCh, "attach")
  /\ UNCHANGED <<conf, joinType, input, sent, done, cur, idx, sets, c, now,
                 out, res, hist>>

\* lines 82-92: lookup.Attach succeeds, the cache is created if configured.
Attach ==
  /\ pc = "start"
  /\ pc' = "select"
  /\ res' = [res EXCEPT !.attach = @ + 1]
  /\ c' = CacheFor(conf)
  /\ UNCHANGED <<conf, joinType, input, sent, done, cur, idx, sets, now, out,
                 errCh, hist>>

\* line 99: n.commonIngest consumes the items that are not data (errors,
\* watermarks, end-of-stream markers); processed items go no further here.
commonIngest(item) == [data |-> item, processed |-> item.kind = "ctrl"]

\* lines 96-98, 150: the cases of the select that are ready.  Go picks among
\* the ready cases at random, so a closed ctx.Done() does not disable the
\* receive.
InputReady == input # <<>>
DoneAlways == TRUE
DoneReady == done

\* lines 115, 140: the batch of an item is broadcast, tagged with the window's
\* range for a Window.
EmitBatch(o, item, tuples) == Broadcast(o, Batch(item.id, tuples, item.range))

\* A variant of EmitError that flushes the accumulated tuples first.
EmitErrorAfterPartial(o, item, tuples, msg) ==
  Broadcast(Broadcast(o, Batch(item.id, tuples, item.range)),
            Error(item.id, msg))

\* lines 111-112, 136-137, 146-147: the error of an item is broadcast; the
\* tuples accumulated so far are dropped with the local sets.
EmitError(o, item, tuples, msg) == Broadcast(o, Error(item.id, msg))

\* A variant of AfterItem that leaves the loop after a failed item.
AfterItemStop(failed) == IF failed THEN "exited" ELSE "select"

\* lines 119-120, 143-144, 149: after an item, failed or not, the for loop
\* goes round to the select again.
AfterItem(failed) == "select"

\* What is recorded of an item that ended with an error: the tuples it had
\* accumulated (partial) and how many emissions there were before it.
Failure(item, tuples, msg) ==
  [item |-> item.id, kind |-> item.kind, partial |-> tuples, msg |-> msg,
   before |-> Len(out)]

\* lines 150-152: the select takes the ctx.Done() case; the function returns
\* nil and the deferred calls run.
CtxDone ==
  /\ pc = "select"
  /\ DoneReady
  /\ pc' = "exited"
  /\ res' = Deferred(res, c)
  /\ c' = Close(c)
  /\ UNCHANGED <<conf, joinType, input, sent, done, cur, idx, sets, now,
                 out, errCh, hist>>

\* lines 98-149, up to the first call of lookup: an item is received and
\* dispatched on its type.
Receive ==
  /\ pc = "select"
  /\ InputReady
  /\ \E item \in ItemsFor(Head(input), MaxCalls - Len(calls)) :
     LET ing == commonIngest(item)
     IN /\ input' = Tail(input)
        /\ recv' = Append(recv, item)
        /\ IF ing.processed
           THEN /\ \E fwd \in BOOLEAN :
                     out' = IF fwd THEN Broadcast(out, Forwarded(item.id)) ELSE out
                /\ UNCHANGED <<pc, cur, idx, sets, fails>>
           ELSE IF item.kind \in {"row", "window"} /\ item.len > 0
           THEN /\ pc' = "range"
                /\ cur' = item
                /\ idx' = 1
                /\ sets' = <<>>
                /\ UNCHANGED <<out, fails>>
           ELSE IF item.kind = "window"
           THEN /\ out' = EmitBatch(out, item, <<>>)
                /\ pc' = AfterItem(FALSE)
                /\ UNCHANGED <<cur, idx, sets, fails>>
           ELSE /\ out' = EmitError(out, item, <<>>, "invalid input type")
                /\ fails' = Append(fails, Failure(item, <<>>, "invalid input type"))
                /\ pc' = AfterItem(TRUE)
                /\ UNCHANGED <<cur, idx, sets>>
  /\ UNCHANGED <<conf, joinType, sent, done, c, now, errCh, res, calls>>

\* A variant of RangeStopsOnErr that goes on to the next row after an error.
RangeGoesOn == FALSE

\* lines 131-133: the callback returns false with the error, which ends
\* d.Range at that row.
RangeStopsOnErr == TRUE

\* What is recorded of one call of lookup(): the row, its key vector, the
\* time, what fetch did, and the tuples the call added to the batch.
Call(item, d, l, t) ==
  [item |-> item.id, d |-> d, cvs |-> Eval(d), time |-> t,
   get |-> l.get, ok |-> l.ok, call |-> l.call, set |-> l.set, r |-> l.r,
   status |-> l.status,
   tuples |-> SubSeq(l.tuples, Len(sets) + 1, Len(l.tuples))]

\* lines 110-118 and 125-142: lookup is called for the next row of the item,
\* which is one of elems; ns.Lookup, if called, returns one of results.
\* An error ends the item with the error broadcast, a panic unwinds through
\* the deferred calls into SafeRun, whose error goes to errCh (lines 156-158),
\* and after the last row the batch is broadcast.
LookupRowOf(elems, results) ==
  /\ pc = "range"
  /\ \E d \in elems :
        IF d.kind # "row"
        THEN /\ out' = EmitError(out, cur, sets, "invalid window element")
             /\ fails' = Append(fails, Failure(cur, sets, "invalid window element"))
             /\ pc' = AfterItem(TRUE)
             /\ cur' = NoItem /\ idx' = 0 /\ sets' = <<>>
             /\ UNCHANGED <<c, errCh, res, calls>>
        ELSE \E ares \in results :
          LET l == lookup(d, sets, c, ares, now)
          IN /\ calls' = Append(calls, Call(cur, d, l, now))
             /\ c' = IF l.status = "panic" THEN Close(l.cache) ELSE l.cache
             /\ CASE l.status = "error" /\ (RangeStopsOnErr \/ idx = cur.len) ->
                       /\ out' = EmitError(out, cur, sets, "lookup")
                       /\ fails' = Append(fails, Failure(cur, sets, "lookup"))
                       /\ pc' = AfterItem(TRUE)
                       /\ cur' = NoItem /\ idx' = 0 /\ sets' = <<>>
                       /\ UNCHANGED <<errCh, res>>
                  [] l.status = "panic" ->
                       /\ pc' = "exited"
                       /\ res' = Deferred(res, c)
                       /\ errCh' = DrainError(errCh, "panic")
                       /\ cur' = NoItem /\ idx' = 0 /\ sets' = <<>>
                       /\ UNCHANGED <<out, fails>>
                  [] l.status = "ok" /\ idx = cur.len ->
                       /\ out' = EmitBatch(out, cur, l.tuples)
                       /\ pc' = AfterItem(FALSE)
                       /\ cur' = NoItem /\ idx' = 0 /\ sets' = <<>>
                       /\ UNCHANGED <<errCh, res, fails>>
                  [] OTHER ->
                       /\ idx' = idx + 1
                       /\ sets' = l.tuples
                       /\ UNCHANGED <<pc, cur, out, errCh, res, fails>>
  /\ UNCHANGED <<conf, joinType, input, sent, done, now, recv>>

LookupRow == LookupRowOf(ElemsAt(cur, idx), AdapterResults)

Next ==
  \/ Send
  \/ Cancel
  \/ Tick
  \/ AttachFail
  \/ Attach
  \/ CtxDone
  \/ Receive
  \/ LookupRow

Spec == Init /\ [][Next]_vars

\* ------------------------------------------------------------------ scheduling
\* The worker goroutine goes on whenever it can: Attach returns, a lookup in
\* progress returns, and a select that is entered again and again with
\* ctx.Done() closed takes that case at some time (Go's select chooses among
\* the ready cases at random).
FairSpec ==
  /\ Spec
  /\ WF_vars(Attach \/ AttachFail)
  /\ WF_vars(LookupRow)
  /\ SF_vars(CtxDone)

\* ------------------------------------------------------------------ key vectors
\* The same node fed with rows whose key vectors differ but print alike under
\* %v: a space inside a string against the space between two elements, and
\* the integer 1 against the string "1".
WideKeyVecs ==
  {<<Str(<<"a", " ", "b">>), Str(<<"c">>)>>,
   <<Str(<<"a">>), Str(<<"b", " ", "c">>)>>,
   <<Num(<<"1">>), Str(<<"x">>)>>,
   <<Str(<<"1">>), Str(<<"x">>)>>}

WideElemsAt(it, i) == {Tag(RowOf(k), it.id, i) : k \in WideKeyVecs}

\* What the adapter answers for these keys: one record or two.
WideResults == {List(<<1>>), List(<<2, 1>>)}

\* A node with a cache and a LEFT join.
InitKeys == Init /\ conf.Cache /\ ~conf.CacheMissingKey /\ joinType = LEFT_JOIN

LookupRowWide == LookupRowOf(WideElemsAt(cur, idx), WideResults)

NextKeys ==
  \/ Send
  \/ Cancel
  \/ Tick
  \/ AttachFail
  \/ Attach
  \/ CtxDone
  \/ Receive
  \/ LookupRowWide

SpecKeys == InitKeys /\ [][NextKeys]_vars

\* ------------------------------------------------------------------ properties
\* A key vector with at least one null element (stated apart from hasNil).
ContainsNull(cvs) == \E j \in DOMAIN cvs : cvs[j].t = "nil"

\* What was broadcast while item id was being processed.
Emissions(id) == SelectSeq(out, LAMBDA e : e.item = id)

\* The tuple of an unmatched row: the row alone.
Alone(d) == <<d>>

\* C1: a Row whose key vector contains a null gives exactly one joined tuple
\* (the Row alone) for a LEFT join and none for an inner join, and lookup
\* returns normally, so that the item ends with a batch.
C1_NullKeyJoins ==
  \A i \in DOMAIN calls :
    ContainsNull(calls[i].cvs) =>
      /\ calls[i].status = "ok"
      /\ calls[i].tuples =
           IF joinType = LEFT_JOIN THEN <<Alone(calls[i].d)>> ELSE <<>>

\* C2: a Row whose key vector contains a null causes no ns.Lookup, no c.Get
\* and no c.Set, with or without a cache.
C2_NullKeySkipsLookup ==
  \A i \in DOMAIN calls :
    ContainsNull(calls[i].cvs) =>
      ~calls[i].call /\ ~calls[i].get /\ ~calls[i].set

\* C2 witness: a null-key row was looked up by a node that has a cache.
C2_Witness ==
  conf.Cache /\ \E i \in DOMAIN calls : ContainsNull(calls[i].cvs)

\* C3: a Window in which a row fails emits one error and nothing else: the
\* tuples accumulated before the failing row are never broadcast.  (A Window
\* whose row panics broadcasts nothing at all.)
C3_WindowAtomicity ==
  /\ \A j \in DOMAIN fails :
       fails[j].kind = "window" =>
         Emissions(fails[j].item) = <<Error(fails[j].item, fails[j].msg)>>
  /\ \A i \in DOMAIN calls :
       calls[i].status = "panic" => Emissions(calls[i].item) = <<>>

\* C3 witness: a Window failed after rows before the failing one had given
\* tuples.
C3_Witness ==
  \E j \in DOMAIN fails : fails[j].kind = "window" /\ Len(fails[j].partial) > 0

\* C4: an item that fails (a lookup error of a Row, an error inside a Window,
\* an input that is neither) has its error broadcast and leaves the worker at
\* the select, ready for the next item; nothing goes to errCh and nothing is
\* released.
C4_ErrorsRecoverable ==
  [][Len(fails') > Len(fails) =>
       LET f == fails'[Len(fails')]
       IN /\ out' = Append(out, Error(f.item, f.msg))
          /\ pc' = "select"
          /\ errCh' = errCh
          /\ res' = res]_vars

\* C4 witness: after an item that failed, a later item was received and its
\* batch, with tuples in it, broadcast.
C4_Witness ==
  \E j \in DOMAIN fails : \E k \in DOMAIN out :
    /\ out[k].item > fails[j].item
    /\ out[k].kind = "batch"
    /\ Len(out[k].Content) > 0

\* C5: an empty, non-nil result for a non-null key gives no tuple for an inner
\* join and exactly one tuple, the Row alone, for a LEFT join.
C5_EmptyResultJoin ==
  \A i \in DOMAIN calls :
    (~ContainsNull(calls[i].cvs) /\ calls[i].r = List(<<>>)) =>
      /\ calls[i].status = "ok"
      /\ calls[i].tuples =
           IF joinType = LEFT_JOIN THEN <<Alone(calls[i].d)>> ELSE <<>>

\* C5 witness: a LEFT join looked up a non-null key and got an empty list.
C5_Witness ==
  /\ joinType = LEFT_JOIN
  /\ \E i \in DOMAIN calls :
       ~ContainsNull(calls[i].cvs) /\ calls[i].r = List(<<>>)

\* Two calls of lookup, the second later, for the same non-null key vector.
SameKey(i, j) ==
  /\ i < j
  /\ calls[i].cvs = calls[j].cvs
  /\ ~ContainsNull(calls[i].cvs)

\* The adapter call of lookup i succeeded with a result the cache keeps.
Kept(i) ==
  /\ calls[i].call
  /\ calls[i].status = "ok"
  /\ (Len(calls[i].r.recs) > 0 \/ conf.CacheMissingKey)

\* C6 as stated: with a cache of TTL T, of two lookups with the same non-null
\* key vector within T of each other only one calls the adapter: if the first
\* did, the second does not.
C6_OneAdapterCall ==
  conf.Cache =>
    \A i, j \in DOMAIN calls :
      (SameKey(i, j) /\ calls[j].time - calls[i].time < conf.CacheTTL
       /\ calls[i].call) => ~calls[j].call

\* C6 amended: when the first lookup's adapter call succeeded with a result
\* the cache keeps (non-empty, or empty with cacheMissingKey), a lookup of the
\* same key vector less than T later makes no adapter call and gets the
\* cached result.
C6_CacheHitAvoidsAdapter ==
  conf.Cache =>
    \A i, j \in DOMAIN calls :
      (SameKey(i, j) /\ calls[j].time - calls[i].time < conf.CacheTTL
       /\ Kept(i)) =>
        ~calls[j].call /\ calls[j].ok /\ calls[j].r = calls[i].r

\* C6 witness: a lookup filled the cache and a later one of the same key was
\* served from it.
C6_Witness ==
  /\ conf.Cache
  /\ \E i, j \in DOMAIN calls :
       /\ SameKey(i, j) /\ Kept(i)
       /\ calls[j].time - calls[i].time < conf.CacheTTL
       /\ calls[j].time > calls[i].time

C8_ExpiryNotSliding ==
  conf.Cache =>
    \A j \in DOMAIN calls :
      (/\ ~ContainsNull(calls[j].cvs)
       /\ \A i \in DOMAIN calls :
            (SameKey(i, j) /\ calls[i].set) =>
              calls[j].time >= calls[i].time + conf.CacheTTL)
      => calls[j].call /\ ~calls[j].ok

\* C8 witness: an entry was set, read before it expired, and looked up again
\* at or after its expiry.
C8_Witness ==
  /\ conf.Cache
  /\ \E i, m, j \in DOMAIN calls :
       /\ SameKey(i, m) /\ SameKey(m, j)
       /\ calls[i].set /\ Kept(i)
       /\ calls[m].ok
       /\ calls[j].time >= calls[i].time + conf.CacheTTL
       /\ calls[j].call

\* The calls of lookup made for item id, in the order they were made.
ItemCalls(id) == SelectSeq(calls, LAMBDA cl : cl.item = id)

\* The tuples one successful call contributes, from what the adapter or the
\* cache returned: one per record, in the order returned.
Matches(cl) ==
  IF Len(cl.r.recs) > 0
  THEN [k \in 1..Len(cl.r.recs) |->
          <<cl.d, [Emitter |-> NodeName, Message |-> ToMap(cl.r.recs[k]),
                   Metadata |-> AllMeta(cl.r.recs[k])]>>]
  ELSE IF joinType = LEFT_JOIN THEN <<Alone(cl.d)>> ELSE <<>>

RECURSIVE Flatten(_)
Flatten(cls) ==
  IF cls = <<>> THEN <<>> ELSE Matches(Head(cls)) \o Flatten(Tail(cls))

\* C9: emissions follow the order in which the items were received; the
\* tuples of a batch follow the rows of the item in order and, for one row,
\* the order of the records returned.
C9_Ordering ==
  /\ \A a \in DOMAIN recv : recv[a].id = a
  /\ \A a, b \in DOMAIN out : a < b => out[a].item < out[b].item
  /\ \A a \in DOMAIN out :
       out[a].kind = "batch" =>
         LET cls == ItemCalls(out[a].item)
         IN /\ \A n \in DOMAIN cls : cls[n].d.id = <<out[a].item, n>>
            /\ out[a].Content = Flatten(cls)

\* C9 witness: two emissions, one of them the batch of a Window with two rows
\* of two matches each.
C9_Witness ==
  /\ Len(out) >= 2
  /\ \E a \in DOMAIN out :
       /\ out[a].kind = "batch"
       /\ Len(out[a].Content) = 4
       /\ out[a].Content[1][1].id[2] = 1
       /\ out[a].Content[1][2].Message # out[a].Content[2][2].Message
       /\ out[a].Content[3][1].id[2] = 2

\* C10 as stated: once done is raised and the worker is at the select, it
\* receives no further item and broadcasts nothing, even with items waiting.
C10_StopsImmediately ==
  [][(pc = "select" /\ done) =>
       /\ pc' \in {"select", "exited"}
       /\ recv' = recv
       /\ out' = out]_vars

\* C10 amended: with done raised and no item waiting, the worker at the select
\* can only return; and whenever it leaves the select by returning, done has
\* been raised, and it receives nothing and broadcasts nothing on the way.
\* With items waiting the select may still receive one.
C10_CancelStops ==
  [][/\ (pc = "select" /\ done /\ input = <<>>) =>
          (pc' \in {"select", "exited"} /\ recv' = recv /\ out' = out)
     /\ (pc = "select" /\ pc' = "exited") =>
          (done /\ recv' = recv /\ input' = input /\ out' = out
           /\ errCh' = errCh)]_vars

\* C10 witness: the worker has returned on cancellation while an item was
\* still waiting in the channel.
C10_Witness ==
  /\ pc = "exited" /\ done /\ errCh = <<>>
  /\ res.detach = 1
  /\ input # <<>>

\* C11: when lookup.Attach fails the error is on the error channel and the
\* worker has ended without entering the loop: nothing was received (all that
\* was sent still waits), nothing was looked up or broadcast, no cache was
\* created and neither Detach nor Close was called.
C11_AttachFailureFatal ==
  (pc # "start" /\ res.attach = 0) =>
    /\ pc = "exited"
    /\ errCh = <<"attach">>
    /\ recv = <<>> /\ Len(input) = sent
    /\ calls = <<>> /\ out = <<>>
    /\ c = NoCache
    /\ res.detach = 0 /\ res.close = 0

\* C11 witness: Attach failed while items were waiting on the input and the
\* node was configured with a cache.
C11_Witness ==
  /\ pc = "exited" /\ res.attach = 0
  /\ conf.Cache /\ Len(input) = MaxItems

\* The resources are released exactly when the worker has left the loop it
\* entered: one Detach, one Close if a cache was configured, the cache empty
\* and no longer live; and nothing is released while the loop runs.
Released ==
  /\ (res.attach = 1 /\ pc = "exited") =>
       /\ res.detach = 1
       /\ res.close = (IF conf.Cache THEN 1 ELSE 0)
       /\ ~c.on /\ c.items = {}
  /\ pc # "exited" => (res.detach = 0 /\ res.close = 0)
  /\ res.attach <= 1

\* C12: after a successful Attach, on every way out of the loop (ctx.Done or
\* a recovered panic) Detach is called exactly once and Close exactly once if
\* a cache was created, and once the worker has left there is no further
\* lookup, cache operation, release or emission.
C12_ReleaseOnExit ==
  /\ []Released
  /\ [][pc = "exited" =>
          /\ pc' = "exited"
          /\ calls' = calls /\ c' = c /\ res' = res
          /\ out' = out /\ errCh' = errCh]_vars

\* C12 witness: a worker whose cache held an entry left on a panic, and the
\* clock or the upstream moved afterwards.
C12_Witness ==
  /\ pc = "exited" /\ res.attach = 1 /\ res.close = 1
  /\ errCh = <<"panic">>
  /\ \E i \in DOMAIN calls : calls[i].set /\ Len(calls[i].r.recs) > 0
  /\ done /\ input # <<>>

\* C13: every Row is looked up once, and one call of lookup makes at most one
\* c.Get and at most one ns.Lookup: a Get only with a cache and a non-null key,
\* an adapter call after a Get only when the Get missed, and without a cache a
\* non-null key makes exactly one adapter call and no Get.
C13_OneGetOneLookup ==
  /\ \A i, j \in DOMAIN calls : calls[i].d.id = calls[j].d.id => i = j
  /\ \A i \in DOMAIN calls :
       /\ calls[i].get => (conf.Cache /\ ~ContainsNull(calls[i].cvs))
       /\ (calls[i].get /\ calls[i].call) => ~calls[i].ok
       /\ (calls[i].get /\ ~calls[i].call) => calls[i].ok
       /\ (~calls[i].get /\ calls[i].call) => ~conf.Cache
       /\ (~conf.Cache /\ ~ContainsNull(calls[i].cvs)) =>
            (calls[i].call /\ ~calls[i].get /\ ~calls[i].set)

\* C13 witness: without a cache, the same non-null key was looked up twice in
\* one Window, each time by an adapter call.
C13_Witness ==
  /\ ~conf.Cache
  /\ \E i, j \in DOMAIN calls :
       /\ SameKey(i, j) /\ calls[i].item = calls[j].item
       /\ calls[i].call /\ calls[j].call

\* C14: the worker never ends silently: when it has left the loop, either the
\* context was cancelled or an error is on the error channel; a panic inside
\* lookup (a nil result list without error) ends the worker with the error on
\* the error channel.
C14_NeverSilent ==
  /\ pc = "exited" => (done \/ errCh # <<>>)
  /\ \A i \in DOMAIN calls :
       calls[i].status = "panic" => (pc = "exited" /\ errCh = <<"panic">>)
  /\ Len(errCh) <= 1

\* C14 witness: the adapter returned a nil list without error for a non-null
\* key, and the worker ended without the context being cancelled.
C14_Witness ==
  /\ pc = "exited" /\ ~done
  /\ \E i \in DOMAIN calls :
       /\ ~ContainsNull(calls[i].cvs) /\ calls[i].call
       /\ calls[i].r = NilList /\ calls[i].status = "panic"

\* C15: a successful lookup whose result holds n > 0 records adds exactly n
\* tuples; each is the original Row followed by one Tuple that carries the
\* record's fields and metadata and has the node's name as Emitter, and this
\* is so whether the result came from the adapter or from the cache.
C15_ResultConstruction ==
  \A i \in DOMAIN calls :
    (calls[i].status = "ok" /\ Len(calls[i].r.recs) > 0) =>
      /\ Len(calls[i].tuples) = Len(calls[i].r.recs)
      /\ \A k \in DOMAIN calls[i].tuples :
           LET jt == calls[i].tuples[k]
           IN /\ Len(jt) = 2
              /\ jt[1] = calls[i].d
              /\ jt[2].Emitter = NodeName
              /\ jt[2].Message = ToMap(calls[i].r.recs[k])
              /\ jt[2].Metadata = AllMeta(calls[i].r.recs[k])

\* C15 witness: a result of two records was joined once from the adapter and
\* once from the cache.
C15_Witness ==
  \E i, j \in DOMAIN calls :
    /\ calls[i].call /\ calls[i].status = "ok" /\ Len(calls[i].r.recs) = 2
    /\ calls[j].ok /\ calls[j].status = "ok" /\ Len(calls[j].tuples) = 2

\* The data items (Row or Window) whose processing has ended.
Finished ==
  {a \in DOMAIN recv :
     /\ recv[a].kind \in {"row", "window"}
     /\ ~(pc = "range" /\ cur.id = recv[a].id)}

\* C16: every Row or Window taken from the input causes exactly one Broadcast,
\* a batch or an error; a Window's batch carries the Window's range, and a Row
\* of an inner join without a match gives one empty batch.
C16_OneEmissionPerItem ==
  \A a \in Finished :
    LET es == Emissions(recv[a].id)
    IN /\ Len(es) = 1
       /\ es[1].kind \in {"batch", "error"}
       /\ (es[1].kind = "batch" /\ recv[a].kind = "window") =>
            es[1].WindowRange = recv[a].range

\* The items for which lookup panicked.
Panicked == {calls[i].item : i \in {j \in DOMAIN calls : calls[j].status = "panic"}}

\* What holds of C16: the items whose lookup did not panic have exactly one
\* emission; the one that panicked has none.
C16_ExceptPanic ==
  \A a \in Finished :
    LET es == Emissions(recv[a].id)
    IN IF recv[a].id \in Panicked THEN es = <<>>
       ELSE /\ Len(es) = 1
            /\ es[1].kind \in {"batch", "error"}
            /\ (es[1].kind = "batch" /\ recv[a].kind = "window") =>
                 es[1].WindowRange = recv[a].range

\* C17: c.Set is called in a lookup only after its c.Get missed and its
\* ns.Lookup returned without error; the cache changes in no other step of the
\* loop; a failed ns.Lookup leaves the cache as it was, and the next lookup
\* of that key calls the adapter again.
C17_MissProtocol ==
  /\ [](\A i \in DOMAIN calls :
          /\ calls[i].set =>
               (calls[i].get /\ ~calls[i].ok /\ calls[i].call
                /\ calls[i].status # "error")
          /\ (conf.Cache /\ calls[i].call /\ calls[i].status = "error") =>
               \A j \in DOMAIN calls :
                 (/\ SameKey(i, j)
                  /\ \A m \in DOMAIN calls :
                       (i < m /\ m < j) => calls[m].cvs # calls[i].cvs)
                 => calls[j].call)
  /\ [][(pc # "start" /\ pc' # "exited" /\ c' # c) =>
          (Len(calls') > Len(calls) /\ calls'[Len(calls')].set)]_vars
  /\ [][(Len(calls') > Len(calls) /\ calls'[Len(calls')].status = "error") =>
          c' = c]_vars

\* C17 witness: with a cache, an adapter call failed and the next lookup of
\* the key called the adapter again, this time setting the cache.
C17_Witness ==
  /\ conf.Cache
  /\ \E i, j \in DOMAIN calls :
       /\ SameKey(i, j) /\ j = i + 1
       /\ calls[i].call /\ calls[i].status = "error"
       /\ calls[j].call /\ calls[j].set /\ Len(calls[j].r.recs) > 0
  /\ c.items # {}

\* C18: the lookup that fails is the last one made for its item: no row after
\* it is evaluated or looked up, and the lookup that follows is that of the
\* first row of a later item.
C18_WindowAbort ==
  \A i \in DOMAIN calls :
    calls[i].status = "error" =>
      /\ \A j \in DOMAIN calls : j > i => calls[j].item > calls[i].item
      /\ (i + 1 \in DOMAIN calls) => calls[i + 1].d.id[2] = 1
      /\ \E k \in DOMAIN fails :
           /\ fails[k].item = calls[i].item
           /\ Len(ItemCalls(calls[i].item)) = calls[i].d.id[2]

\* C18 witness: the first row of a Window of two or more rows failed, and the
\* Row that came next was looked up and its batch, with tuples, broadcast.
C18_Witness ==
  \E i \in DOMAIN calls : \E a \in DOMAIN recv : \E b \in DOMAIN out :
    /\ calls[i].status = "error" /\ calls[i].d.id[2] = 1
    /\ recv[a].id = calls[i].item /\ recv[a].kind = "window" /\ recv[a].len >= 2
    /\ out[b].item > calls[i].item /\ out[b].kind = "batch"
    /\ Len(out[b].Content) > 0

\* C19: a cache hit returns only what was stored for the identical key vector:
\* every lookup served by the cache follows a lookup of the same key vector
\* that set the cache with the result now returned.
C19_CacheKeySeparation ==
  \A j \in DOMAIN calls :
    calls[j].ok =>
      \E i \in DOMAIN calls :
        /\ i < j
        /\ calls[i].set
        /\ calls[i].cvs = calls[j].cvs
        /\ calls[i].r = calls[j].r

\* The worker has left the loop and what it had attached or created is
\* released.
ExitedAndReleased ==
  /\ pc = "exited"
  /\ res.detach = res.attach
  /\ res.close = (IF conf.Cache /\ res.attach = 1 THEN 1 ELSE 0)
  /\ ~c.on

\* Once done is raised the worker leaves the loop and releases the source
\* handle and the cache.
C20_Terminates == done ~> ExitedAndReleased

\* While an item is in progress the worker does not leave, cancelled or not:
\* it goes on with the item, or ends it with the item's one emission.
C20_InFlightCompleted ==
  [][pc = "range" =>
       \/ pc' = "range" /\ out' = out
       \/ /\ pc' = "select"
          /\ Len(out') = Len(out) + 1
          /\ out'[Len(out')].item = cur.id]_vars

\* C20: once done is raised the worker eventually leaves the loop with the
\* source handle and the cache released, and an item taken from the input is
\* processed to its end and its result emitted before the worker leaves.
C20_TerminationOnCancel == C20_Terminates /\ C20_InFlightCompleted

\* What holds of C20: termination and release, and an item in progress is
\* completed with its emission unless its lookup panics.
C20_ExceptPanic ==
  /\ C20_Terminates
  /\ [][(pc = "range" /\ pc' = "exited") =>
          (calls'[Len(calls')].status = "panic" /\ out' = out)]_vars
  /\ [][(pc = "range" /\ pc' = "select") =>
          (Len(out') = Len(out) + 1 /\ out'[Len(out')].item = cur.id)]_vars

====
